---- MODULE Spec2Model ----
(***************************************************************************)
(* Model of server.py: seven weather tools over one HTTP helper            *)
(* (make_openmeteo_request) and one static table (WEATHER_CODES).          *)
(*                                                                         *)
(* One tool invocation is modelled from the call to the return (or to an   *)
(* uncaught Python exception).  Every await on make_openmeteo_request is a *)
(* suspension point: the handler's segment before it issues the request,   *)
(* the helper completes it with whatever the backend answers, and the next *)
(* segment of the handler runs on the parsed body.                         *)
(*                                                                         *)
(* Texts are TLA+ strings built exactly as the f-strings build them.  TLA+  *)
(* strings are ASCII, so the non-ASCII characters of the source's literals *)
(* are written as ASCII stand-ins: the degree sign is "deg", and each      *)
(* emoji is its name in brackets ("[fire]", "[pin]").                      *)
(* JSON numbers are integers here; str() of an integer is its decimal.     *)
(***************************************************************************)
EXTENDS Integers, Sequences, FiniteSets, TLC

VARIABLES
    pc,        \* "idle", "await" (suspended in the helper), "ready", "done"
    tool,      \* name of the invoked tool, "" before the call
    args,      \* the call's arguments
    locals,    \* the handler's local variables that outlive an await
    data,      \* what make_openmeteo_request returned to the handler
    inflight,  \* set of requests sent and not yet completed
    issued,    \* every request sent, in order
    outcomes,  \* per completed request: "none" (absence) or "dict"
    result     \* [kind |-> "return" | "fault" | "pending", text |-> ...]

vars == <<pc, tool, args, locals, data, inflight, issued, outcomes, result>>

---------------------------------------------------------------------------
(* Bounds of the model                                                     *)

\* Longest result list the geocoding backend answers with.
MaxResults == 2
\* Longest date array the forecast backend answers with.
MaxDates == 2

---------------------------------------------------------------------------
(* Python values                                                           *)

PyNone == [t |-> "none"]
PyInt(n) == [t |-> "int", n |-> n]
PyStr(s) == [t |-> "str", s |-> s]
PyList(xs) == [t |-> "list", xs |-> xs]
PyDict(d) == [t |-> "dict", d |-> d]
EmptyDict == PyDict([k \in {} |-> PyNone])

\* bool(v)
Truthy(v) ==
    CASE v.t = "none" -> FALSE
      [] v.t = "int" -> v.n # 0
      [] v.t = "str" -> v.s # ""
      [] v.t = "list" -> v.xs # <<>>
      [] v.t = "dict" -> DOMAIN v.d # {}

\* d.get(k, default) on a dict d
DictGet(d, k, default) == IF k \in DOMAIN d.d THEN d.d[k] ELSE default

\* str(v), as an f-string renders a value with no format spec
Str(v) ==
    CASE v.t = "none" -> "None"
      [] v.t = "int" -> ToString(v.n)
      [] v.t = "str" -> v.s

\* f"{v:.4f}" of a number
Fmt4f(v) == ToString(v.n) \o ".0000"

Min(a, b) == IF a < b THEN a ELSE b
Max(a, b) == IF a > b THEN a ELSE b

---------------------------------------------------------------------------
(* str.lower, str.upper and the `in` operator on strings                   *)

UpperAlpha == "ABCDEFGHIJKLMNOPQRSTUVWXYZ"
LowerAlpha == "abcdefghijklmnopqrstuvwxyz"
UpperSet == {SubSeq(UpperAlpha, i, i) : i \in 1..Len(UpperAlpha)}
LowerSet == {SubSeq(LowerAlpha, i, i) : i \in 1..Len(LowerAlpha)}
ToLowerMap == [c \in UpperSet |->
    SubSeq(LowerAlpha, CHOOSE i \in 1..Len(UpperAlpha) : SubSeq(UpperAlpha, i, i) = c,
                       CHOOSE i \in 1..Len(UpperAlpha) : SubSeq(UpperAlpha, i, i) = c)]
ToUpperMap == [c \in LowerSet |->
    SubSeq(UpperAlpha, CHOOSE i \in 1..Len(LowerAlpha) : SubSeq(LowerAlpha, i, i) = c,
                       CHOOSE i \in 1..Len(LowerAlpha) : SubSeq(LowerAlpha, i, i) = c)]
LowerChar(c) == IF c \in UpperSet THEN ToLowerMap[c] ELSE c
UpperChar(c) == IF c \in LowerSet THEN ToUpperMap[c] ELSE c

RECURSIVE LowerRange(_, _, _)
LowerRange(s, lo, hi) ==
    IF lo > hi THEN ""
    ELSE IF lo = hi THEN LowerChar(SubSeq(s, lo, lo))
    ELSE LET mid == (lo + hi) \div 2
         IN LowerRange(s, lo, mid) \o LowerRange(s, mid + 1, hi)

RECURSIVE UpperRange(_, _, _)
UpperRange(s, lo, hi) ==
    IF lo > hi THEN ""
    ELSE IF lo = hi THEN UpperChar(SubSeq(s, lo, lo))
    ELSE LET mid == (lo + hi) \div 2
         IN UpperRange(s, lo, mid) \o UpperRange(s, mid + 1, hi)

\* s.lower()
Lower(s) == LowerRange(s, 1, Len(s))
\* s.upper()
Upper(s) == UpperRange(s, 1, Len(s))
\* sub in s
Contains(s, sub) ==
    \E i \in 1..(Len(s) - Len(sub) + 1) : SubSeq(s, i, i + Len(sub) - 1) = sub
\* s.startswith(p)
StartsWith(s, p) == Len(s) >= Len(p) /\ SubSeq(s, 1, Len(p)) = p
\* s.endswith(p)
EndsWith(s, p) == Len(s) >= Len(p) /\ SubSeq(s, Len(s) - Len(p) + 1, Len(s)) = p

---------------------------------------------------------------------------
(* WEATHER_CODES                                                           *)

WEATHER_CODES ==
    (0 :> "Clear sky") @@ (1 :> "Mainly clear") @@ (2 :> "Partly cloudy") @@
    (3 :> "Overcast") @@ (45 :> "Fog") @@ (48 :> "Depositing rime fog") @@
    (51 :> "Light drizzle") @@ (53 :> "Moderate drizzle") @@
    (55 :> "Dense drizzle") @@ (56 :> "Light freezing drizzle") @@
    (57 :> "Dense freezing drizzle") @@ (61 :> "Slight rain") @@
    (63 :> "Moderate rain") @@ (65 :> "Heavy rain") @@
    (66 :> "Light freezing rain") @@ (67 :> "Heavy freezing rain") @@
    (71 :> "Slight snow fall") @@ (73 :> "Moderate snow fall") @@
    (75 :> "Heavy snow fall") @@ (77 :> "Snow grains") @@
    (80 :> "Slight rain showers") @@ (81 :> "Moderate rain showers") @@
    (82 :> "Violent rain showers") @@ (85 :> "Slight snow showers") @@
    (86 :> "Heavy snow showers") @@ (95 :> "Thunderstorm") @@
    (96 :> "Thunderstorm with slight hail") @@
    (99 :> "Thunderstorm with heavy hail")

\* WEATHER_CODES.get(v, 'Unknown')
WeatherCodesGet(v) ==
    IF v.t = "int" /\ v.n \in DOMAIN WEATHER_CODES THEN WEATHER_CODES[v.n]
    ELSE "Unknown"

\* WEATHER_CODES.get(v, 'Unknown') if v else 'Unknown'
WeatherDescIfTruthy(v) == IF Truthy(v) THEN WeatherCodesGet(v) ELSE "Unknown"

---------------------------------------------------------------------------
(* Outcomes of a handler segment                                           *)

Return(text) == [kind |-> "return", text |-> text]
Fault(exc) == [kind |-> "fault", text |-> exc]
Pending == [kind |-> "pending", text |-> ""]

---------------------------------------------------------------------------
(* Request URLs.  A URL is kept as its base, its path and its query        *)
(* parameters rather than as one string.                                   *)

OPENMETEO_API_BASE == "https://api.open-meteo.com/v1"
GEOCODING_API_BASE == "https://geocoding-api.open-meteo.com/v1"
ARCHIVE_API_BASE == "https://archive-api.open-meteo.com/v1"

Url(base, path, q) == [base |-> base, path |-> path, q |-> q]

---------------------------------------------------------------------------
(* The backend: the bodies it may answer a request with.  A body is a JSON *)
(* object; a field of it may be present, missing or null.                  *)

\* Weather codes the backend serves: a falsy table key, a plain table key,
\* a thunderstorm key and a code outside the table.
SampleCodes == {0, 3, 95, 999}
\* Fields probed one at a time for absence (besides all fields at once).
ProbeFields == {"temperature_2m", "precipitation", "weather_code",
                "temperature_2m_max", "wind_speed_10m_max"}
AbsenceModes == {"missing", "null"}

\* A number for each metric, distinct per metric.
MetricValue(f) ==
    CASE f = "temperature_2m" -> 21
      [] f = "apparent_temperature" -> 19
      [] f = "relative_humidity_2m" -> 55
      [] f = "wind_speed_10m" -> 12
      [] f = "wind_direction_10m" -> 180
      [] f = "pressure_msl" -> 1013
      [] f = "cloud_cover" -> 40
      [] f = "precipitation" -> 4
      [] f = "rain" -> 2
      [] f = "snowfall" -> 0
      [] f = "temperature_2m_max" -> 25
      [] f = "temperature_2m_min" -> 14
      [] f = "precipitation_sum" -> 7
      [] f = "wind_speed_10m_max" -> 33
      [] OTHER -> 1

SeqToSet(xs) == {xs[i] : i \in 1..Len(xs)}

\* The subsets of a request's fields that are absent together.
AbsentSets(fields) == {fields} \cup {{f} : f \in fields \cap ProbeFields}

\* A "current" object over `fields`, the fields of `absent` left out
\* ("missing") or null ("null").
Snapshot(fields, absent, mode, code) ==
    PyDict([f \in (IF mode = "missing" THEN fields \ absent ELSE fields) |->
        IF f \in absent THEN PyNone
        ELSE IF f = "weather_code" THEN PyInt(code)
        ELSE PyInt(MetricValue(f))])

Snapshots(fields) ==
    {Snapshot(fields, {}, "missing", c) : c \in SampleCodes}
    \cup {Snapshot(fields, a, m, 3) : a \in AbsentSets(fields), m \in AbsenceModes}

\* Metric values around the alert thresholds.
AlertTemps == {PyNone, PyInt(-21), PyInt(-20), PyInt(-19), PyInt(34), PyInt(35), PyInt(36)}
AlertWinds == {PyNone, PyInt(59), PyInt(60), PyInt(61)}
AlertPrecips == {PyNone, PyInt(19), PyInt(20), PyInt(21)}
AlertCodes == {PyNone, PyInt(0), PyInt(3), PyInt(95), PyInt(96), PyInt(99), PyInt(999)}

AlertSnapshots ==
    {PyDict([temperature_2m |-> t, wind_speed_10m |-> w, precipitation |-> p,
             weather_code |-> c]) :
        t \in AlertTemps, w \in AlertWinds, p \in AlertPrecips, c \in AlertCodes}
    \cup {Snapshot({"temperature_2m", "wind_speed_10m", "precipitation", "weather_code"},
                   a, "missing", 95) :
            a \in AbsentSets({"temperature_2m", "wind_speed_10m", "precipitation",
                              "weather_code"})}

\* Bodies of /forecast?current=...
CurrentBodies(url) ==
    LET snaps == IF "hourly" \in DOMAIN url.q THEN AlertSnapshots
                 ELSE Snapshots(SeqToSet(url.q.current))
    IN {EmptyDict,
        PyDict([latitude |-> PyInt(url.q.latitude), longitude |-> PyInt(url.q.longitude)]),
        PyDict([latitude |-> PyInt(url.q.latitude), current |-> PyNone])}
       \cup {PyDict([latitude |-> PyInt(url.q.latitude), current |-> c]) : c \in snaps}


---------------------------------------------------------------------------
(* get_current_weather                                                     *)

CurrentWeatherFields ==
    <<"temperature_2m", "is_day", "showers", "cloud_cover", "wind_speed_10m",
      "wind_direction_10m", "pressure_msl", "snowfall", "precipitation",
      "relative_humidity_2m", "apparent_temperature", "rain", "weather_code",
      "surface_pressure", "wind_gusts_10m">>

CurrentWeatherUrl(latitude, longitude) ==
    Url(OPENMETEO_API_BASE, "/forecast",
        [latitude |-> latitude, longitude |-> longitude, current |-> CurrentWeatherFields])

\* current.get(key, 'N/A') rendered in the f-string
FieldOrNA(current, key) == Str(DictGet(current, key, PyStr("N/A")))

CurrentWeatherReport(current) ==
    "Current Weather:\n"
    \o "Temperature: " \o FieldOrNA(current, "temperature_2m") \o "degC\n"
    \o "Feels like: " \o FieldOrNA(current, "apparent_temperature") \o "degC\n"
    \o "Humidity: " \o FieldOrNA(current, "relative_humidity_2m") \o "%\n"
    \o "Wind Speed: " \o FieldOrNA(current, "wind_speed_10m") \o " km/h\n"
    \o "Wind Direction: " \o FieldOrNA(current, "wind_direction_10m") \o "deg\n"
    \o "Pressure: " \o FieldOrNA(current, "pressure_msl") \o " hPa\n"
    \o "Cloud Cover: " \o FieldOrNA(current, "cloud_cover") \o "%\n"
    \o "Precipitation: " \o FieldOrNA(current, "precipitation") \o " mm\n"
    \o "Rain: " \o FieldOrNA(current, "rain") \o " mm\n"
    \o "Snow: " \o FieldOrNA(current, "snowfall") \o " mm\n"
    \o "Weather: " \o WeatherCodesGet(DictGet(current, "weather_code", PyNone))

CurrentWeatherFallback == "Unable to fetch current weather data for this location."

\* The handler after its await, on the helper's return value d.
get_current_weather(d) ==
    IF ~Truthy(d) THEN Return(CurrentWeatherFallback)
    ELSE LET current == DictGet(d, "current", EmptyDict)
         IN IF current.t # "dict" THEN Fault("AttributeError")
            ELSE Return(CurrentWeatherReport(current))

---------------------------------------------------------------------------
(* search_locations                                                        *)

SearchUrl(query) ==
    Url(GEOCODING_API_BASE, "/search",
        [name |-> query, count |-> 5, language |-> "en", format |-> "json"])

\* "\n".join(xs) and its like
RECURSIVE Join(_, _)
Join(sep, xs) ==
    IF xs = <<>> THEN ""
    ELSE IF Len(xs) = 1 THEN xs[1]
    ELSE xs[1] \o sep \o Join(sep, Tail(xs))

\* f"{lat:.4f}" raises TypeError on None
LocationLineFaults(r) ==
    \/ DictGet(r, "latitude", PyInt(0)).t # "int"
    \/ DictGet(r, "longitude", PyInt(0)).t # "int"

\* One iteration of the loop over data['results'].
LocationLine(r) ==
    LET name == DictGet(r, "name", PyStr("Unknown"))
        country == DictGet(r, "country", PyStr("Unknown"))
        admin1 == DictGet(r, "admin1", PyStr(""))
        lat == DictGet(r, "latitude", PyInt(0))
        lon == DictGet(r, "longitude", PyInt(0))
    IN Str(name)
       \o (IF Truthy(admin1) THEN ", " \o Str(admin1) ELSE "")
       \o ", " \o Str(country) \o " (Lat: " \o Fmt4f(lat) \o ", Lon: " \o Fmt4f(lon) \o ")"

SearchFallback(query) == "No locations found for '" \o query \o "'"

search_locations(query, d) ==
    IF ~Truthy(d) \/ ~Truthy(DictGet(d, "results", PyNone))
    THEN Return(SearchFallback(query))
    ELSE LET results == d.d["results"].xs
         IN IF \E i \in 1..Len(results) : LocationLineFaults(results[i])
            THEN Fault("TypeError")
            ELSE Return("Found locations:\n"
                        \o Join("\n", [i \in 1..Len(results) |-> LocationLine(results[i])]))

\* Matches the geocoding backend answers with.
LocationFields == {"name", "country", "admin1", "latitude", "longitude"}
Location(name, absent, mode) ==
    PyDict([f \in (IF mode = "missing" THEN LocationFields \ absent ELSE LocationFields) |->
        IF f \in absent THEN PyNone
        ELSE CASE f = "name" -> PyStr(name)
               [] f = "country" -> PyStr("France")
               [] f = "admin1" -> PyStr("Ile-de-France")
               [] f = "latitude" -> PyInt(48)
               [] f = "longitude" -> PyInt(2)])
Locations(query) ==
    {Location(n, {}, "missing") : n \in {query, "Not Found"}}
    \cup {Location(query, {f}, m) : f \in LocationFields, m \in AbsenceModes}
    \cup {PyDict([name |-> PyStr(query), country |-> PyStr("France"), admin1 |-> PyStr(""),
                  latitude |-> PyInt(48), longitude |-> PyInt(2)])}

GeocodingBodies(url) ==
    {EmptyDict,
     PyDict([generationtime_ms |-> PyInt(1)]),
     PyDict([results |-> PyNone]),
     PyDict([results |-> PyList(<<>>)])}
    \cup {PyDict([results |-> PyList(xs)]) :
            xs \in UNION {[1..k -> Locations(url.q.name)] :
                            k \in 1..Min(url.q.count, MaxResults)}}

---------------------------------------------------------------------------
(* get_weather_forecast                                                    *)

\* The clamp without its lower limit.
ClampDaysUpperOnly(days) == Min(days, 16)

\* days = max(1, min(days, 16))
ClampDays(days) == Max(1, Min(days, 16))

ForecastDailyFields ==
    <<"weather_code", "temperature_2m_max", "temperature_2m_min", "precipitation_sum",
      "wind_speed_10m_max", "wind_direction_10m_dominant">>

ForecastUrl(latitude, longitude, days) ==
    Url(OPENMETEO_API_BASE, "/forecast",
        [latitude |-> latitude, longitude |-> longitude, daily |-> ForecastDailyFields,
         forecast_days |-> days, timezone |-> "auto"])

\* daily.get(key, [])[i] if i < len(daily.get(key, [])) else default
\* (i counts from 1 here)
ArrayAtOr(daily, key, i, default) ==
    LET arr == DictGet(daily, key, PyList(<<>>))
    IN IF i <= Len(arr.xs) THEN arr.xs[i] ELSE default

\* len(daily.get(key, [])) raises TypeError on None
ArrayLenFaults(daily, key) == DictGet(daily, key, PyList(<<>>)).t # "list"

ForecastLine(daily, dates, i) ==
    LET weather_code == ArrayAtOr(daily, "weather_code", i, PyNone)
        temp_max == ArrayAtOr(daily, "temperature_2m_max", i, PyStr("N/A"))
        temp_min == ArrayAtOr(daily, "temperature_2m_min", i, PyStr("N/A"))
        precipitation == ArrayAtOr(daily, "precipitation_sum", i, PyStr("N/A"))
        wind_speed == ArrayAtOr(daily, "wind_speed_10m_max", i, PyStr("N/A"))
        weather_desc == WeatherDescIfTruthy(weather_code)
    IN Str(dates[i]) \o ": " \o weather_desc \o ", " \o Str(temp_min) \o "degC - "
       \o Str(temp_max) \o "degC, Rain: " \o Str(precipitation) \o "mm, Wind: "
       \o Str(wind_speed) \o "km/h"

ForecastHeader(days) == "Weather Forecast for " \o ToString(days) \o " days:"
ForecastFallback == "Unable to fetch forecast data for this location."

\* The handler after its await; days is the clamped value.
get_weather_forecast(days, d) ==
    IF ~Truthy(d) THEN Return(ForecastFallback)
    ELSE LET daily == DictGet(d, "daily", EmptyDict)
         IN IF daily.t # "dict" THEN Fault("AttributeError")
            ELSE LET dates == DictGet(daily, "time", PyList(<<>>))
                 IN IF dates.t # "list" THEN Fault("TypeError")
                    ELSE IF /\ Len(dates.xs) > 0
                            /\ \E k \in {"weather_code", "temperature_2m_max",
                                         "temperature_2m_min", "precipitation_sum",
                                         "wind_speed_10m_max"} : ArrayLenFaults(daily, k)
                    THEN Fault("TypeError")
                    ELSE Return(Join("\n",
                            <<ForecastHeader(days)>>
                            \o [i \in 1..Len(dates.xs) |-> ForecastLine(daily, dates.xs, i)]))

\* Daily arrays the backends answer with: per field an array aligned with
\* the dates, or for the fields of `absent` one that is left out
\* ("missing"), null, one entry short ("short") or empty.
DailyModes == {"missing", "null", "short", "empty"}
DailyArray(f, n, first) ==
    PyList([i \in 1..n |->
        IF f = "weather_code" THEN (IF i = 1 THEN first ELSE PyInt(3))
        ELSE PyInt(MetricValue(f) + i - 1)])
Daily(fields, dates, absent, mode, first) ==
    PyDict([f \in ((IF mode = "missing" THEN fields \ absent ELSE fields) \cup {"time"}) |->
        IF f = "time" THEN PyList(dates)
        ELSE IF f \notin absent THEN DailyArray(f, Len(dates), first)
        ELSE CASE mode = "null" -> PyNone
               [] mode = "short" -> DailyArray(f, Max(Len(dates) - 1, 0), first)
               [] mode = "empty" -> PyList(<<>>)])
DailyObjects(fields, dates) ==
    {Daily(fields, dates, {}, "missing", c) : c \in {PyInt(k) : k \in SampleCodes} \cup {PyNone}}
    \cup {Daily(fields, dates, a, m, PyInt(3)) : a \in AbsentSets(fields), m \in DailyModes}
    \cup {PyDict([f \in fields |-> DailyArray(f, Len(dates), PyInt(3))]),
          PyDict([f \in fields \cup {"time"} |->
                    IF f = "time" THEN PyNone ELSE DailyArray(f, Len(dates), PyInt(3))])}
DailyBodies(url, dateLists) ==
    {EmptyDict,
     PyDict([latitude |-> PyInt(url.q.latitude)]),
     PyDict([latitude |-> PyInt(url.q.latitude), daily |-> PyNone])}
    \cup {PyDict([latitude |-> PyInt(url.q.latitude), daily |-> dl]) :
            dl \in UNION {DailyObjects(SeqToSet(url.q.daily), dates) : dates \in dateLists}}

\* The dates of a forecast: consecutive days.
ForecastDates(n) == [i \in 1..n |-> PyStr("2024-06-1" \o ToString(i))]
ForecastBodies(url) == DailyBodies(url, {ForecastDates(n) : n \in 0..MaxDates})

---------------------------------------------------------------------------
(* get_weather_alerts                                                      *)

AlertsUrl(latitude, longitude) ==
    Url(OPENMETEO_API_BASE, "/forecast",
        [latitude |-> latitude, longitude |-> longitude,
         current |-> <<"temperature_2m", "wind_speed_10m", "precipitation", "weather_code">>,
         hourly |-> <<"temperature_2m", "precipitation", "wind_speed_10m">>,
         forecast_days |-> 2, timezone |-> "auto"])

HEAT_WARNING == "[fire] HEAT WARNING: Extreme temperature detected"
COLD_WARNING == "[cold] COLD WARNING: Extreme cold temperature detected"
WIND_WARNING == "[wind] WIND WARNING: High wind speeds detected"
PRECIPITATION_WARNING == "[rain] PRECIPITATION WARNING: Heavy precipitation detected"
THUNDERSTORM_WARNING == "[storm] THUNDERSTORM WARNING: Thunderstorm conditions detected"
NoAlertsMessage == "[ok] No weather alerts or warnings for this location."
AlertsFallback == "Unable to fetch weather alert data for this location."

\* The temperature rule with strict comparisons.
TemperatureAlertsStrict(temp) ==
    IF temp.t # "none"
    THEN IF temp.n > 35 THEN <<HEAT_WARNING>>
         ELSE IF temp.n < -20 THEN <<COLD_WARNING>>
         ELSE <<>>
    ELSE <<>>

\* The alerts list as the four if statements build it.
TemperatureAlerts(temp) ==
    IF temp.t # "none"
    THEN IF temp.n >= 35 THEN <<HEAT_WARNING>>
         ELSE IF temp.n <= -20 THEN <<COLD_WARNING>>
         ELSE <<>>
    ELSE <<>>
WindAlerts(wind_speed) ==
    IF wind_speed.t # "none" /\ wind_speed.n >= 60 THEN <<WIND_WARNING>> ELSE <<>>
PrecipitationAlerts(precipitation) ==
    IF precipitation.t # "none" /\ precipitation.n >= 20
    THEN <<PRECIPITATION_WARNING>> ELSE <<>>
ThunderstormAlerts(weather_code) ==
    IF weather_code.t = "int" /\ weather_code.n \in {95, 96, 99}
    THEN <<THUNDERSTORM_WARNING>> ELSE <<>>

Alerts(current) ==
    TemperatureAlerts(DictGet(current, "temperature_2m", PyNone))
    \o WindAlerts(DictGet(current, "wind_speed_10m", PyNone))
    \o PrecipitationAlerts(DictGet(current, "precipitation", PyNone))
    \o ThunderstormAlerts(DictGet(current, "weather_code", PyNone))

get_weather_alerts(d) ==
    IF ~Truthy(d) THEN Return(AlertsFallback)
    ELSE LET current == DictGet(d, "current", EmptyDict)
         IN IF current.t # "dict" THEN Fault("AttributeError")
            ELSE IF Alerts(current) = <<>> THEN Return(NoAlertsMessage)
            ELSE Return("Weather Alerts:\n" \o Join("\n", Alerts(current)))

---------------------------------------------------------------------------
(* get_weather_by_city                                                     *)

GeocodeCityUrl(city_name) ==
    Url(GEOCODING_API_BASE, "/search",
        [name |-> city_name, count |-> 1, language |-> "en", format |-> "json"])

ByCityFields ==
    <<"temperature_2m", "is_day", "cloud_cover", "wind_speed_10m", "wind_direction_10m",
      "pressure_msl", "precipitation", "relative_humidity_2m", "apparent_temperature",
      "weather_code">>

ByCityWeatherUrl(latitude, longitude) ==
    Url(OPENMETEO_API_BASE, "/forecast",
        [latitude |-> latitude, longitude |-> longitude, current |-> ByCityFields])

CityNotFound(city_name) ==
    "City '" \o city_name \o "' not found. Please check the spelling and try again."
NoCoordinates(city_name) == "Could not get coordinates for '" \o city_name \o "'"
ByCityFallback(name, country) ==
    "Unable to fetch weather data for " \o Str(name) \o ", " \o Str(country) \o "."

\* The handler suspends again on a second request, keeping name and country.
AwaitWeather(url, name, country) ==
    [kind |-> "await", text |-> "", url |-> url, name |-> name, country |-> country]

\* The segment between the two awaits, on the geocoding result.
ByCityAfterGeocoding(city_name, location_data) ==
    IF ~Truthy(location_data) \/ ~Truthy(DictGet(location_data, "results", PyNone))
    THEN Return(CityNotFound(city_name))
    ELSE LET location == location_data.d["results"].xs[1]
             latitude == DictGet(location, "latitude", PyNone)
             longitude == DictGet(location, "longitude", PyNone)
             name == DictGet(location, "name", PyNone)
             country == DictGet(location, "country", PyNone)
         IN IF latitude = PyNone \/ longitude = PyNone
            THEN Return(NoCoordinates(city_name))
            ELSE AwaitWeather(ByCityWeatherUrl(latitude.n, longitude.n), name, country)

ByCityReport(name, country, current) ==
    "Weather in " \o Str(name) \o ", " \o Str(country) \o ":\n"
    \o "Weather: " \o WeatherDescIfTruthy(DictGet(current, "weather_code", PyNone)) \o "\n"
    \o "Temperature: " \o FieldOrNA(current, "temperature_2m") \o "degC\n"
    \o "Feels like: " \o FieldOrNA(current, "apparent_temperature") \o "degC\n"
    \o "Humidity: " \o FieldOrNA(current, "relative_humidity_2m") \o "%\n"
    \o "Wind Speed: " \o FieldOrNA(current, "wind_speed_10m") \o " km/h\n"
    \o "Wind Direction: " \o FieldOrNA(current, "wind_direction_10m") \o "deg\n"
    \o "Pressure: " \o FieldOrNA(current, "pressure_msl") \o " hPa\n"
    \o "Cloud Cover: " \o FieldOrNA(current, "cloud_cover") \o "%\n"
    \o "Precipitation: " \o FieldOrNA(current, "precipitation") \o " mm"

\* The segment after the second await, on the weather result.
ByCityAfterWeather(name, country, weather_data) ==
    IF ~Truthy(weather_data) THEN Return(ByCityFallback(name, country))
    ELSE LET current == DictGet(weather_data, "current", EmptyDict)
         IN IF current.t # "dict" THEN Fault("AttributeError")
            ELSE Return(ByCityReport(name, country, current))

\* One segment of get_weather_by_city: frame holds its step and locals.
ByCityStep(city_name, frame, d) ==
    IF frame.step = "geocoding" THEN ByCityAfterGeocoding(city_name, d)
    ELSE ByCityAfterWeather(frame.name, frame.country, d)

---------------------------------------------------------------------------
(* compare_weather_cities                                                  *)

\* "not found" in w.lower() or "unable to fetch" in w.lower()
LooksFailed(w) ==
    Contains(Lower(w), "not found") \/ Contains(Lower(w), "unable to fetch")

CompareFailure(city, weather) ==
    "Could not get weather data for " \o city \o ": " \o weather

\* The block with the two reports in the other order.
ComparisonSwapped(city1, city2, weather1, weather2) ==
    "Weather Comparison:\n\n"
    \o "[pin] " \o Upper(city2) \o ":\n" \o weather2 \o "\n\n"
    \o "[pin] " \o Upper(city1) \o ":\n" \o weather1

Comparison(city1, city2, weather1, weather2) ==
    "Weather Comparison:\n\n"
    \o "[pin] " \o Upper(city1) \o ":\n" \o weather1 \o "\n\n"
    \o "[pin] " \o Upper(city2) \o ":\n" \o weather2

\* The handler after both awaits.
compare_weather_cities(city1, city2, weather1, weather2) ==
    IF LooksFailed(weather1) THEN Return(CompareFailure(city1, weather1))
    ELSE IF LooksFailed(weather2) THEN Return(CompareFailure(city2, weather2))
    ELSE Return(Comparison(city1, city2, weather1, weather2))

---------------------------------------------------------------------------
(* get_historical_weather                                                  *)

Digits == "0123456789"
IsDigit(c) == \E i \in 1..Len(Digits) : SubSeq(Digits, i, i) = c
DigitVal(c) == (CHOOSE i \in 1..Len(Digits) : SubSeq(Digits, i, i) = c) - 1
\* s[i], or "" past the end (i counts from 1)
At(s, i) == IF i >= 1 /\ i <= Len(s) THEN SubSeq(s, i, i) ELSE ""
IsNonZeroDigit(c) == IsDigit(c) /\ c # "0"

\* %m is the pattern 1[0-2]|0[1-9]|[1-9]; the "-" after it decides, by
\* backtracking, between the alternatives: the length matched at p, 0 for none.
MonthLen(s, p) ==
    IF /\ \/ At(s, p) = "1" /\ At(s, p + 1) \in {"0", "1", "2"}
          \/ At(s, p) = "0" /\ IsNonZeroDigit(At(s, p + 1))
       /\ At(s, p + 2) = "-"
    THEN 2
    ELSE IF IsNonZeroDigit(At(s, p)) /\ At(s, p + 1) = "-" THEN 1
    ELSE 0

\* %d is the pattern 3[01]|[12]\d|0[1-9]|[1-9]| [1-9], the last group of the
\* format: the first alternative that matches at p is taken.
DayLen(s, p) ==
    IF At(s, p) = "3" /\ At(s, p + 1) \in {"0", "1"} THEN 2
    ELSE IF At(s, p) \in {"1", "2"} /\ IsDigit(At(s, p + 1)) THEN 2
    ELSE IF At(s, p) = "0" /\ IsNonZeroDigit(At(s, p + 1)) THEN 2
    ELSE IF IsNonZeroDigit(At(s, p)) THEN 1
    ELSE IF At(s, p) = " " /\ IsNonZeroDigit(At(s, p + 1)) THEN 2
    ELSE 0

\* int() of a group of one or two characters (a leading space is skipped)
GroupVal(s, p, n) ==
    IF n = 1 THEN DigitVal(At(s, p))
    ELSE (IF At(s, p) = " " THEN 0 ELSE 10 * DigitVal(At(s, p))) + DigitVal(At(s, p + 1))

IsLeap(y) == y % 4 = 0 /\ (y % 100 # 0 \/ y % 400 = 0)
DaysInMonth(y, m) ==
    IF m = 2 THEN (IF IsLeap(y) THEN 29 ELSE 28)
    ELSE IF m \in {4, 6, 9, 11} THEN 30
    ELSE 31

NoDate == <<0, 0, 0>>

\* datetime.strptime(date, '%Y-%m-%d').date(): ok is FALSE where it raises
\* ValueError (no match, unconverted data, or no such calendar day).
Strptime(s) ==
    LET yearOk == /\ \A i \in 1..4 : IsDigit(At(s, i))
                  /\ At(s, 5) = "-"
        mlen == MonthLen(s, 6)
        dlen == DayLen(s, 7 + mlen)
        matched == yearOk /\ mlen > 0 /\ dlen > 0
        year == 1000 * DigitVal(At(s, 1)) + 100 * DigitVal(At(s, 2))
                + 10 * DigitVal(At(s, 3)) + DigitVal(At(s, 4))
        month == GroupVal(s, 6, mlen)
        day == GroupVal(s, 7 + mlen, dlen)
    IN IF ~matched THEN [ok |-> FALSE, date |-> NoDate]
       ELSE IF 6 + mlen + dlen # Len(s) THEN [ok |-> FALSE, date |-> NoDate]
       ELSE IF year < 1 \/ day > DaysInMonth(year, month) THEN [ok |-> FALSE, date |-> NoDate]
       ELSE [ok |-> TRUE, date |-> <<year, month, day>>]

\* a >= b on dates
DateGeq(a, b) ==
    \/ a[1] > b[1]
    \/ a[1] = b[1] /\ a[2] > b[2]
    \/ a[1] = b[1] /\ a[2] = b[2] /\ a[3] >= b[3]

HistoricalDailyFields ==
    <<"weather_code", "temperature_2m_max", "temperature_2m_min", "precipitation_sum",
      "wind_speed_10m_max">>

HistoricalUrl(latitude, longitude, date) ==
    Url(ARCHIVE_API_BASE, "/archive",
        [latitude |-> latitude, longitude |-> longitude, start_date |-> date,
         end_date |-> date, daily |-> HistoricalDailyFields, timezone |-> "auto"])

InvalidDateFormat == "Invalid date format. Please use YYYY-MM-DD format."
PastDatesOnly == "Historical weather data is only available for past dates."
HistoricalFallback(date) == "Unable to fetch historical weather data for " \o date \o "."
NoHistoricalData(date) == "No historical data available for " \o date \o "."

AwaitFetch(url) == [kind |-> "await", text |-> "", url |-> url]

\* The handler up to its await: the two checks, then the request.
HistoricalBeforeFetch(latitude, longitude, date, today) ==
    IF ~Strptime(date).ok THEN Return(InvalidDateFormat)
    ELSE IF DateGeq(Strptime(date).date, today) THEN Return(PastDatesOnly)
    ELSE AwaitFetch(HistoricalUrl(latitude, longitude, date))

\* daily.get(key, [default])[0] raises TypeError on None, IndexError on []
FirstFaults(daily, key) ==
    LET arr == DictGet(daily, key, PyList(<<PyNone>>))
    IN arr.t # "list" \/ arr.xs = <<>>
FirstFaultName(daily, key) ==
    IF DictGet(daily, key, PyList(<<PyNone>>)).t # "list" THEN "TypeError" ELSE "IndexError"
FirstOr(daily, key, default) == DictGet(daily, key, PyList(<<default>>)).xs[1]

HistoricalReport(date, daily) ==
    LET weather_code == FirstOr(daily, "weather_code", PyNone)
        temp_max == FirstOr(daily, "temperature_2m_max", PyStr("N/A"))
        temp_min == FirstOr(daily, "temperature_2m_min", PyStr("N/A"))
        precipitation == FirstOr(daily, "precipitation_sum", PyStr("N/A"))
        wind_speed == FirstOr(daily, "wind_speed_10m_max", PyStr("N/A"))
    IN "Historical Weather for " \o date \o ":\n"
       \o "Weather: " \o WeatherDescIfTruthy(weather_code) \o "\n"
       \o "Temperature: " \o Str(temp_min) \o "degC - " \o Str(temp_max) \o "degC\n"
       \o "Precipitation: " \o Str(precipitation) \o " mm\n"
       \o "Max Wind Speed: " \o Str(wind_speed) \o " km/h"

\* The handler after its await.
get_historical_weather(date, d) ==
    IF ~Truthy(d) THEN Return(HistoricalFallback(date))
    ELSE LET daily == DictGet(d, "daily", EmptyDict)
             order == <<"weather_code", "temperature_2m_max", "temperature_2m_min",
                        "precipitation_sum", "wind_speed_10m_max">>
         IN IF daily.t # "dict" THEN Fault("AttributeError")
            ELSE IF ~Truthy(DictGet(daily, "time", PyNone)) THEN Return(NoHistoricalData(date))
            ELSE IF \E i \in 1..Len(order) : FirstFaults(daily, order[i])
            THEN Fault(FirstFaultName(daily,
                    order[CHOOSE i \in 1..Len(order) :
                            /\ FirstFaults(daily, order[i])
                            /\ \A j \in 1..(i - 1) : ~FirstFaults(daily, order[j])]))
            ELSE Return(HistoricalReport(date, daily))

\* The archive answers a one-day range with that day, or with no day.
ArchiveBodies(url) == DailyBodies(url, {<<PyStr(url.q.start_date)>>, <<>>})

---------------------------------------------------------------------------
(* What the backends answer                                                *)

Bodies(url) ==
    CASE url.base = OPENMETEO_API_BASE /\ "current" \in DOMAIN url.q -> CurrentBodies(url)
      [] url.base = OPENMETEO_API_BASE /\ "daily" \in DOMAIN url.q -> ForecastBodies(url)
      [] url.base = GEOCODING_API_BASE -> GeocodingBodies(url)
      [] url.base = ARCHIVE_API_BASE -> ArchiveBodies(url)

\* What one GET ends with: an exception inside the helper's try block, or a
\* parsed body.
FailureKinds == {"transport_error", "timeout", "http_status", "bad_json"}
Responses(url) ==
    {[kind |-> k, json |-> PyNone] : k \in FailureKinds}
    \cup {[kind |-> "ok", json |-> b] : b \in Bodies(url)}

---------------------------------------------------------------------------
(* make_openmeteo_request                                                  *)

\* The helper's return value for one response: the parsed body, or None when
\* client.get, raise_for_status or response.json raised.
make_openmeteo_request(resp) == IF resp.kind = "ok" THEN resp.json ELSE PyNone

---------------------------------------------------------------------------
(* Arguments the tools are called with                                     *)

Latitudes == {48, -33}
Longitudes == {2}
Queries == {"Paris", "Qwxyzzzz"}
DaysArgs == {-3, 0, 1, 5, 7, 16, 17, 30}
Cities == {"Paris", "Oslo"}
\* Date strings: well-formed ones, ones with one-digit groups, days and
\* months that do not exist, and text that is no date.
DateArgs ==
    {y \o "-" \o m \o "-" \o d :
        y \in {"2023", "2024", "2099", "0000"},
        m \in {"02", "2", "06", "13", "00"},
        d \in {"1", "05", "15", "29", "30", "31", "32"}}
    \cup {"not-a-date", "", "2024/06/15", "20240615", "24-06-15", "2024-06-15 ",
          "2024-06- 5", "2024-06-15T00:00"}
\* What datetime.now().date() reads.
Todays == {<<2024, 6, 15>>, <<2024, 2, 29>>}

---------------------------------------------------------------------------
(* The state machine                                                       *)

NoArgs == [k \in {} |-> 0]

Init ==
    /\ pc = "idle"
    /\ tool = ""
    /\ args = NoArgs
    /\ locals = NoArgs
    /\ data = PyNone
    /\ inflight = {}
    /\ issued = <<>>
    /\ outcomes = <<>>
    /\ result = Pending

\* await make_openmeteo_request(url): the request leaves and the handler
\* is suspended.
Issue(url) ==
    /\ inflight' = inflight \cup {url}
    /\ issued' = Append(issued, url)
    /\ pc' = "await"

\* The handler ends with outcome r.
Finish(r) ==
    /\ result' = r
    /\ pc' = "done"

\* The helper sending a failed request once more instead of returning None.
FetchReturnsRetrying ==
    /\ pc = "await"
    /\ \E url \in inflight : \E resp \in Responses(url) :
        IF resp.kind # "ok" /\ Len(issued) < 6
        THEN /\ issued' = Append(issued, url)
             /\ UNCHANGED <<data, inflight, outcomes, pc>>
        ELSE /\ data' = make_openmeteo_request(resp)
             /\ inflight' = inflight \ {url}
             /\ outcomes' = Append(outcomes, make_openmeteo_request(resp).t)
             /\ issued' = issued
             /\ pc' = "ready"
    /\ UNCHANGED <<tool, args, locals, result>>

\* make_openmeteo_request returns to the suspended handler.
FetchReturns ==
    /\ pc = "await"
    /\ \E url \in inflight : \E resp \in Responses(url) :
        /\ data' = make_openmeteo_request(resp)
        /\ inflight' = inflight \ {url}
        /\ outcomes' = Append(outcomes, make_openmeteo_request(resp).t)
    /\ pc' = "ready"
    /\ UNCHANGED <<tool, args, locals, issued, result>>

Call_get_current_weather ==
    /\ pc = "idle"
    /\ \E latitude \in Latitudes, longitude \in Longitudes :
        /\ tool' = "get_current_weather"
        /\ args' = [latitude |-> latitude, longitude |-> longitude]
        /\ Issue(CurrentWeatherUrl(latitude, longitude))
    /\ UNCHANGED <<locals, data, outcomes, result>>

Resume_get_current_weather ==
    /\ pc = "ready"
    /\ tool = "get_current_weather"
    /\ Finish(get_current_weather(data))
    /\ UNCHANGED <<tool, args, locals, data, inflight, issued, outcomes>>

Call_search_locations ==
    /\ pc = "idle"
    /\ \E query \in Queries :
        /\ tool' = "search_locations"
        /\ args' = [query |-> query]
        /\ Issue(SearchUrl(query))
    /\ UNCHANGED <<locals, data, outcomes, result>>

Resume_search_locations ==
    /\ pc = "ready"
    /\ tool = "search_locations"
    /\ Finish(search_locations(args.query, data))
    /\ UNCHANGED <<tool, args, locals, data, inflight, issued, outcomes>>

\* The parameter days is rebound to its clamped value before the await.
Call_get_weather_forecast ==
    /\ pc = "idle"
    /\ \E latitude \in Latitudes, longitude \in Longitudes, days \in DaysArgs :
        /\ tool' = "get_weather_forecast"
        /\ args' = [latitude |-> latitude, longitude |-> longitude, days |-> days]
        /\ locals' = [days |-> ClampDays(days)]
        /\ Issue(ForecastUrl(latitude, longitude, ClampDays(days)))
    /\ UNCHANGED <<data, outcomes, result>>

Resume_get_weather_forecast ==
    /\ pc = "ready"
    /\ tool = "get_weather_forecast"
    /\ Finish(get_weather_forecast(locals.days, data))
    /\ UNCHANGED <<tool, args, locals, data, inflight, issued, outcomes>>

Call_get_weather_alerts ==
    /\ pc = "idle"
    /\ \E latitude \in Latitudes, longitude \in Longitudes :
        /\ tool' = "get_weather_alerts"
        /\ args' = [latitude |-> latitude, longitude |-> longitude]
        /\ Issue(AlertsUrl(latitude, longitude))
    /\ UNCHANGED <<locals, data, outcomes, result>>

Resume_get_weather_alerts ==
    /\ pc = "ready"
    /\ tool = "get_weather_alerts"
    /\ Finish(get_weather_alerts(data))
    /\ UNCHANGED <<tool, args, locals, data, inflight, issued, outcomes>>

Call_get_weather_by_city ==
    /\ pc = "idle"
    /\ \E city_name \in Cities :
        /\ tool' = "get_weather_by_city"
        /\ args' = [city_name |-> city_name]
        /\ locals' = [step |-> "geocoding"]
        /\ Issue(GeocodeCityUrl(city_name))
    /\ UNCHANGED <<data, outcomes, result>>

Resume_get_weather_by_city ==
    /\ pc = "ready"
    /\ tool = "get_weather_by_city"
    /\ LET o == ByCityStep(args.city_name, locals, data)
       IN IF o.kind = "await"
          THEN /\ Issue(o.url)
               /\ locals' = [step |-> "weather", name |-> o.name, country |-> o.country]
               /\ UNCHANGED result
          ELSE /\ Finish(o)
               /\ UNCHANGED <<locals, inflight, issued>>
    /\ UNCHANGED <<tool, args, data, outcomes>>

\* weather1 = await get_weather_by_city(city1) begins.
Call_compare_weather_cities ==
    /\ pc = "idle"
    /\ \E city1 \in Cities, city2 \in Cities :
        /\ tool' = "compare_weather_cities"
        /\ args' = [city1 |-> city1, city2 |-> city2]
        /\ locals' = [call |-> 1, step |-> "geocoding"]
        /\ Issue(GeocodeCityUrl(city1))
    /\ UNCHANGED <<data, outcomes, result>>

\* The running get_weather_by_city call goes on; when it returns, the
\* second call begins or, after the second, the comparison is built.  An
\* exception of a call is not caught here.
Resume_compare_weather_cities ==
    /\ pc = "ready"
    /\ tool = "compare_weather_cities"
    /\ LET city == IF locals.call = 1 THEN args.city1 ELSE args.city2
           o == ByCityStep(city, locals, data)
       IN CASE o.kind = "await" ->
                 /\ Issue(o.url)
                 /\ locals' = [locals EXCEPT !.step = "weather"]
                                @@ [name |-> o.name, country |-> o.country]
                 /\ UNCHANGED result
            [] o.kind = "fault" ->
                 /\ Finish(o)
                 /\ UNCHANGED <<locals, inflight, issued>>
            [] o.kind = "return" /\ locals.call = 1 ->
                 /\ Issue(GeocodeCityUrl(args.city2))
                 /\ locals' = [call |-> 2, step |-> "geocoding", weather1 |-> o.text]
                 /\ UNCHANGED result
            [] o.kind = "return" /\ locals.call = 2 ->
                 /\ Finish(compare_weather_cities(args.city1, args.city2,
                                                  locals.weather1, o.text))
                 /\ locals' = [call |-> 2, weather1 |-> locals.weather1,
                               weather2 |-> o.text]
                 /\ UNCHANGED <<inflight, issued>>
    /\ UNCHANGED <<tool, args, data, outcomes>>

\* The handler runs to its first return or to its await; today is read
\* only once the format check has passed.
Call_get_historical_weather ==
    /\ pc = "idle"
    /\ \E latitude \in Latitudes, longitude \in Longitudes, date \in DateArgs,
          today \in Todays :
        LET o == HistoricalBeforeFetch(latitude, longitude, date, today)
        IN /\ tool' = "get_historical_weather"
           /\ args' = [latitude |-> latitude, longitude |-> longitude, date |-> date]
           /\ locals' = IF Strptime(date).ok THEN [today |-> today] ELSE NoArgs
           /\ IF o.kind = "await"
              THEN Issue(o.url) /\ UNCHANGED result
              ELSE Finish(o) /\ UNCHANGED <<inflight, issued>>
    /\ UNCHANGED <<data, outcomes>>

Resume_get_historical_weather ==
    /\ pc = "ready"
    /\ tool = "get_historical_weather"
    /\ Finish(get_historical_weather(args.date, data))
    /\ UNCHANGED <<tool, args, locals, data, inflight, issued, outcomes>>

Next ==
    \/ Call_get_weather_by_city
    \/ Resume_get_weather_by_city
    \/ Call_compare_weather_cities
    \/ Resume_compare_weather_cities
    \/ Call_get_historical_weather
    \/ Resume_get_historical_weather
    \/ Call_get_current_weather
    \/ Resume_get_current_weather
    \/ Call_search_locations
    \/ Resume_search_locations
    \/ Call_get_weather_forecast
    \/ Resume_get_weather_forecast
    \/ Call_get_weather_alerts
    \/ Resume_get_weather_alerts
    \/ FetchReturns

Spec == Init /\ [][Next]_vars

---------------------------------------------------------------------------
(* Properties                                                              *)

Done == pc = "done"
Returned == Done /\ result.kind = "return"
Faulted == Done /\ result.kind = "fault"
SomeFetchAbsent == \E i \in 1..Len(outcomes) : outcomes[i] = "none"
NoFetchAbsent == \A i \in 1..Len(outcomes) : outcomes[i] = "dict"
IsReportOfCity(w) == StartsWith(w, "Weather in ")

\* The table's description of a backend code, "Unknown" for any other value.
TableDescription(v) ==
    IF v.t = "int" /\ v.n \in DOMAIN WEATHER_CODES THEN WEATHER_CODES[v.n] ELSE "Unknown"

\* C1: whenever a fetch of an invocation yielded the absence value, the
\* invocation ends by returning the tool's designated fallback text, and
\* never in an unhandled fault.
C1_AbsenceGivesFallback ==
    (Done /\ SomeFetchAbsent) =>
        /\ result.kind = "return"
        /\ CASE tool = "get_current_weather" ->
                  result.text = "Unable to fetch current weather data for this location."
             [] tool = "search_locations" ->
                  result.text = "No locations found for '" \o args.query \o "'"
             [] tool = "get_weather_forecast" ->
                  result.text = "Unable to fetch forecast data for this location."
             [] tool = "get_weather_alerts" ->
                  result.text = "Unable to fetch weather alert data for this location."
             [] tool = "get_weather_by_city" ->
                  IF Len(outcomes) = 1
                  THEN /\ StartsWith(result.text, "City '" \o args.city_name \o "' not found")
                  ELSE /\ StartsWith(result.text, "Unable to fetch weather data for ")
                       /\ EndsWith(result.text, ".")
             [] tool = "get_historical_weather" ->
                  result.text = "Unable to fetch historical weather data for "
                                \o args.date \o "."
             [] tool = "compare_weather_cities" ->
                  \E city \in {args.city1, args.city2} :
                      StartsWith(result.text, "Could not get weather data for " \o city \o ": ")

\* C2: for the six tools that fetch and format, a response that is not the
\* absence value never makes the invocation end in a fault, whichever of the
\* expected fields are missing, null or short.
C2_AbsentFieldsNeverFault ==
    (Done /\ tool # "compare_weather_cities" /\ Len(outcomes) >= 1 /\ NoFetchAbsent) =>
        result.kind = "return"

\* C3: in get_current_weather, get_weather_forecast, get_weather_by_city and
\* get_historical_weather a report renders the backend's weather code as the
\* table's description of it when it is a key of the table (0 included), and
\* as "Unknown" when it is no key or absent.
C3_CodeRenderedFromTable ==
    /\ (Returned /\ tool = "get_current_weather"
            /\ StartsWith(result.text, "Current Weather:")) =>
          EndsWith(result.text, "\nWeather: " \o TableDescription(
              DictGet(DictGet(data, "current", EmptyDict), "weather_code", PyNone)))
    /\ (Returned /\ tool = "get_weather_by_city" /\ IsReportOfCity(result.text)) =>
          Contains(result.text, "\nWeather: " \o TableDescription(
              DictGet(DictGet(data, "current", EmptyDict), "weather_code", PyNone)) \o "\n")
    /\ (Returned /\ tool = "get_historical_weather"
            /\ StartsWith(result.text, "Historical Weather for ")) =>
          Contains(result.text, "\nWeather: " \o TableDescription(
              DictGet(data.d["daily"], "weather_code", PyList(<<PyNone>>)).xs[1]) \o "\n")
    /\ (Returned /\ tool = "get_weather_forecast"
            /\ StartsWith(result.text, "Weather Forecast for ")) =>
          LET daily == DictGet(data, "daily", EmptyDict)
              dates == DictGet(daily, "time", PyList(<<>>)).xs
              codes == DictGet(daily, "weather_code", PyList(<<>>)).xs
          IN \A i \in 1..Len(dates) :
                Contains(result.text,
                    "\n" \o dates[i].s \o ": "
                    \o TableDescription(IF i <= Len(codes) THEN codes[i] ELSE PyNone)
                    \o ", ")

\* A date string of exactly the shape YYYY-MM-DD that names a calendar day.
IsStrictCalendarDate(s) ==
    /\ Len(s) = 10
    /\ \A i \in {1, 2, 3, 4, 6, 7, 9, 10} : IsDigit(SubSeq(s, i, i))
    /\ SubSeq(s, 5, 5) = "-" /\ SubSeq(s, 8, 8) = "-"
    /\ LET y == 1000 * DigitVal(SubSeq(s, 1, 1)) + 100 * DigitVal(SubSeq(s, 2, 2))
                + 10 * DigitVal(SubSeq(s, 3, 3)) + DigitVal(SubSeq(s, 4, 4))
           m == 10 * DigitVal(SubSeq(s, 6, 6)) + DigitVal(SubSeq(s, 7, 7))
           d == 10 * DigitVal(SubSeq(s, 9, 9)) + DigitVal(SubSeq(s, 10, 10))
       IN y >= 1 /\ m \in 1..12 /\ d >= 1 /\ d <= DaysInMonth(y, m)
StrictDateValue(s) ==
    <<1000 * DigitVal(SubSeq(s, 1, 1)) + 100 * DigitVal(SubSeq(s, 2, 2))
        + 10 * DigitVal(SubSeq(s, 3, 3)) + DigitVal(SubSeq(s, 4, 4)),
      10 * DigitVal(SubSeq(s, 6, 6)) + DigitVal(SubSeq(s, 7, 7)),
      10 * DigitVal(SubSeq(s, 9, 9)) + DigitVal(SubSeq(s, 10, 10))>>

\* C4: get_historical_weather sends no request for a date argument that is
\* not a valid YYYY-MM-DD calendar date and none for a date that is today or
\* later (it returns the past-dates message); for a valid date before today
\* it sends exactly one request, to the archive backend.
C4_NoFetchUnlessValidPastDate ==
    tool = "get_historical_weather" =>
        /\ Len(issued) <= 1
        /\ \A i \in 1..Len(issued) : issued[i].base = "https://archive-api.open-meteo.com/v1"
        /\ ~IsStrictCalendarDate(args.date) => issued = <<>>
        /\ IsStrictCalendarDate(args.date) =>
              IF DateGeq(StrictDateValue(args.date), locals.today)
              THEN /\ issued = <<>>
                   /\ result = Return("Historical weather data is only available for past dates.")
              ELSE Len(issued) = 1

\* The lines the four rules contribute for a snapshot, in the fixed order.
ExpectedAlertLines(current) ==
    LET temp == DictGet(current, "temperature_2m", PyNone)
        wind == DictGet(current, "wind_speed_10m", PyNone)
        precip == DictGet(current, "precipitation", PyNone)
        code == DictGet(current, "weather_code", PyNone)
        heat == temp.t = "int" /\ temp.n >= 35
        cold == temp.t = "int" /\ temp.n <= -20
        windy == wind.t = "int" /\ wind.n >= 60
        wet == precip.t = "int" /\ precip.n >= 20
        storm == code.t = "int" /\ code.n \in {95, 96, 99}
    IN (IF heat THEN <<"[fire] HEAT WARNING: Extreme temperature detected">> ELSE <<>>)
       \o (IF cold THEN <<"[cold] COLD WARNING: Extreme cold temperature detected">> ELSE <<>>)
       \o (IF windy THEN <<"[wind] WIND WARNING: High wind speeds detected">> ELSE <<>>)
       \o (IF wet THEN <<"[rain] PRECIPITATION WARNING: Heavy precipitation detected">>
           ELSE <<>>)
       \o (IF storm THEN <<"[storm] THUNDERSTORM WARNING: Thunderstorm conditions detected">>
           ELSE <<>>)

AlertsSnapshotServed ==
    /\ Returned
    /\ tool = "get_weather_alerts"
    /\ Truthy(data)
    /\ DictGet(data, "current", EmptyDict).t = "dict"

\* C5: on a successful snapshot get_weather_alerts returns the "no alerts"
\* message exactly when none of the four rules fires; otherwise "Weather
\* Alerts:" and one line per fired rule in the order temperature, wind,
\* precipitation, thunderstorm.  An absent metric fires no rule, and the
\* heat and cold warnings never both appear.
C5_AlertsMatchRules ==
    AlertsSnapshotServed =>
        LET lines == ExpectedAlertLines(DictGet(data, "current", EmptyDict))
        IN /\ (result.text = "[ok] No weather alerts or warnings for this location.")
                <=> (lines = <<>>)
           /\ lines # <<>> => result.text = "Weather Alerts:\n" \o Join("\n", lines)
           /\ ~(Contains(result.text, "HEAT WARNING") /\ Contains(result.text, "COLD WARNING"))

C5_Witness ==
    /\ AlertsSnapshotServed
    /\ Len(ExpectedAlertLines(DictGet(data, "current", EmptyDict))) = 4
    /\ Contains(result.text, "THUNDERSTORM WARNING")

\* days brought into [1, 16]
Clamped(days) == IF days < 1 THEN 1 ELSE IF days > 16 THEN 16 ELSE days

\* C6: for every days argument get_weather_forecast uses min(max(days, 1), 16)
\* as the forecast_days parameter of its request and as the day count of
\* the report header; a value in [1, 16] is used unchanged.
C6_DaysClamped ==
    tool = "get_weather_forecast" =>
        /\ Len(issued) = 1
        /\ issued[1].q.forecast_days = Clamped(args.days)
        /\ issued[1].q.forecast_days \in 1..16
        /\ args.days \in 1..16 => issued[1].q.forecast_days = args.days
        /\ args.days = 0 => issued[1].q.forecast_days = 1
        /\ args.days = 30 => issued[1].q.forecast_days = 16
        /\ (Returned /\ Truthy(data)) =>
              StartsWith(result.text,
                  "Weather Forecast for " \o ToString(Clamped(args.days)) \o " days:")

C6_Witness ==
    /\ Returned
    /\ tool = "get_weather_forecast"
    /\ args.days = 30
    /\ issued[1].q.forecast_days = 16
    /\ StartsWith(result.text, "Weather Forecast for 16 days:\n")

\* The geocoding result has no first match, or one without both coordinates.
GeocodingGaveNoMatch(d) == ~Truthy(d) \/ ~Truthy(DictGet(d, "results", PyNone))
FirstMatchLacksCoordinates(d) ==
    /\ ~GeocodingGaveNoMatch(d)
    /\ \/ DictGet(d.d["results"].xs[1], "latitude", PyNone) = PyNone
       \/ DictGet(d.d["results"].xs[1], "longitude", PyNone) = PyNone

\* C7: get_weather_by_city returns a "not found" message naming the city
\* both when geocoding yields no match and when the first match lacks a
\* latitude or a longitude, and in both cases sends no second request.
C7_NotFoundWithoutCoordinates ==
    (tool = "get_weather_by_city" /\ Done /\ Len(outcomes) = 1
        /\ (GeocodingGaveNoMatch(data) \/ FirstMatchLacksCoordinates(data))) =>
        /\ result.kind = "return"
        /\ Contains(result.text, "not found")
        /\ Contains(result.text, args.city_name)
        /\ Len(issued) = 1

\* str.upper of the city arguments
UpperOfCity(city) == CASE city = "Paris" -> "PARIS" [] city = "Oslo" -> "OSLO"

ComparisonBlock(city1, city2, report1, report2) ==
    "Weather Comparison:\n\n[pin] " \o UpperOfCity(city1) \o ":\n" \o report1
    \o "\n\n[pin] " \o UpperOfCity(city2) \o ":\n" \o report2

BothLookupsSucceeded ==
    /\ Returned
    /\ tool = "compare_weather_cities"
    /\ IsReportOfCity(locals.weather1)
    /\ IsReportOfCity(locals.weather2)

\* C8 as stated: when both get_weather_by_city calls succeed, the result is
\* the comparison block: city1's report under city1 uppercased, then city2's
\* report under city2 uppercased, each report unmodified.
C8_BothSucceedGivesComparison ==
    BothLookupsSucceeded =>
        result.text = ComparisonBlock(args.city1, args.city2,
                                      locals.weather1, locals.weather2)

\* C8 as amended: when both get_weather_by_city calls succeed and neither
\* report contains "not found" or "unable to fetch" in any letter case, the
\* result is the comparison block: city1's report under city1 uppercased,
\* then city2's report under city2 uppercased, each report unmodified.
C8_ComparisonUnlessMarkerInReport ==
    (BothLookupsSucceeded /\ ~LooksFailed(locals.weather1) /\ ~LooksFailed(locals.weather2)) =>
        result.text = ComparisonBlock(args.city1, args.city2,
                                      locals.weather1, locals.weather2)

C8_Witness ==
    /\ BothLookupsSucceeded
    /\ args.city1 = "Paris" /\ args.city2 = "Oslo"
    /\ locals.weather1 # locals.weather2
    /\ StartsWith(result.text, "Weather Comparison:\n\n[pin] PARIS:\nWeather in Paris, France:")
    /\ Contains(result.text, "\n\n[pin] OSLO:\nWeather in Oslo, France:")

\* C9: compare_weather_cities returns the comparison block only if both
\* lookups succeeded; when a lookup failed (geocoding absent or empty, first
\* match without coordinates, weather fetch absent) the result is "Could not
\* get weather data for <city>: <message>" for the failed city, city1 when
\* both failed.
C9_FailureNeverEmbedded ==
    (Returned /\ tool = "compare_weather_cities") =>
        /\ StartsWith(result.text, "Weather Comparison:") =>
              IsReportOfCity(locals.weather1) /\ IsReportOfCity(locals.weather2)
        /\ ~IsReportOfCity(locals.weather1) =>
              result.text = "Could not get weather data for " \o args.city1 \o ": "
                            \o locals.weather1
        /\ (IsReportOfCity(locals.weather1) /\ ~IsReportOfCity(locals.weather2)) =>
              result.text = "Could not get weather data for " \o args.city2 \o ": "
                            \o locals.weather2

\* The most requests one invocation of a tool sends.
RequestLimit(t) ==
    CASE t = "get_weather_by_city" -> 2
      [] t = "compare_weather_cities" -> 4
      [] OTHER -> 1

IsGeocoding(url) == url.base = "https://geocoding-api.open-meteo.com/v1"
IsCurrentConditions(url) ==
    url.base = "https://api.open-meteo.com/v1" /\ "current" \in DOMAIN url.q

C10_State ==
    /\ Cardinality(inflight) <= 1
    /\ Len(issued) = Len(outcomes) + Cardinality(inflight)
    /\ Len(issued) <= RequestLimit(tool)
    /\ tool = "get_weather_by_city" =>
          /\ Len(issued) >= 1 => issued[1] = GeocodeCityUrl(args.city_name)
          /\ Len(issued) = 2 => outcomes[1] = "dict" /\ IsCurrentConditions(issued[2])
    /\ tool = "compare_weather_cities" =>
          /\ Len(issued) >= 1 /\ issued[1] = GeocodeCityUrl(args.city1)
          /\ \A i \in 2..Len(issued) :
                IsCurrentConditions(issued[i]) =>
                    IsGeocoding(issued[i - 1]) /\ outcomes[i - 1] = "dict"
          \* the city2 lookup is made whatever the city1 lookup returned
          /\ ("weather1" \in DOMAIN locals) <=>
                (\E i \in 2..Len(issued) : IsGeocoding(issued[i]))
          /\ \A i \in 2..Len(issued) :
                IsGeocoding(issued[i]) => issued[i] = GeocodeCityUrl(args.city2)
          /\ Cardinality({i \in 1..Len(issued) : IsGeocoding(issued[i])}) <= 2

C10_Step ==
    Len(issued') > Len(issued) =>
        /\ Len(issued') = Len(issued) + 1
        /\ inflight = {}
        /\ Len(outcomes) = Len(issued)
        /\ (/\ IsCurrentConditions(issued'[Len(issued')])
            /\ tool \in {"get_weather_by_city", "compare_weather_cities"}) =>
              /\ pc = "ready"
              /\ ~GeocodingGaveNoMatch(data)
              /\ ~FirstMatchLacksCoordinates(data)
        /\ (pc = "ready" /\ tool = "compare_weather_cities"
                /\ IsGeocoding(issued'[Len(issued')])) =>
              locals.call = 1 /\ locals'.call = 2

\* C10: within one invocation at most one request is in flight and none is
\* sent again after it failed: get_weather_by_city sends its weather request
\* only after its geocoding request completed with a match, and
\* compare_weather_cities sends the requests of city1 and waits for them
\* before the first request of city2, which it sends whatever the city1
\* lookup returned; so an invocation sends at most 1 request, 2 for
\* get_weather_by_city and 4 for compare_weather_cities.
C10_SequentialNoRetry == [](C10_State) /\ [][C10_Step]_vars

C10_Witness ==
    /\ Returned
    /\ tool = "compare_weather_cities"
    /\ Len(issued) = 4
    /\ outcomes = <<"dict", "dict", "dict", "none">>

====
